---- MODULE Spec2Model ----
(***************************************************************************)
(* A model of tinydb's Table (src/tinydb/table.py) with its query cache    *)
(* (LRUCache, src/tinydb/utils.py) and the queries it evaluates            *)
(* (src/tinydb/queries.py).                                                *)
(*                                                                         *)
(* Python values are encoded as follows.                                   *)
(*   Optional[x]   : None is <<>>, a present value x is <<x>>.             *)
(*   dict          : a sequence of entries [key, doc] in insertion order.  *)
(*   dict key      : [int |-> n] for the int n, [str |-> digits] for a     *)
(*                   str of decimal digits; an int never equals a str.     *)
(*   raw document  : a function from field names to values.               *)
(*   Document      : [doc_id |-> n, value |-> raw document].               *)
(*   QueryInstance : [hash, kind, path, rhs]; _hash None is not cacheable. *)
(*                                                                         *)
(* Spec is the Table. LRUSpec is an LRUCache on its own, MWSpec a           *)
(* CachingMiddleware (src/tinydb/middlewares.py) around a MemoryStorage     *)
(* (src/tinydb/storages.py), QSpec the evaluation of queries on documents.  *)
(* Each specification moves its own variables and leaves the others as      *)
(* they start.                                                             *)
(***************************************************************************)
EXTENDS Integers, Sequences, FiniteSets, TLC

\* ------------------------------------------------------------------ bounds
\* The most document ids one Table instance issues in a run.
MaxIssued == 2
\* cache_size handed to Table.__init__ (the default is 10).
CacheSize == 2

\* The most accesses (set, or get of a present key) made to one LRUCache.
MaxClock == 5
\* The largest capacity an LRUCache is constructed with.
MaxCapacity == 2
\* The most calls made to one CachingMiddleware.
MaxCalls == 5
\* The largest WRITE_CACHE_SIZE a CachingMiddleware is given.
MaxThreshold == 3
\* The most calls begun by the Tables that share one storage.
MaxCycles == 3
\* The most objects (lists and Documents) a Table hands out.
MaxObjects == 5

VARIABLES storage, cache, next_id, last, issued, truncated_at,
          lru_capacity, lru_cache, lru_last, lru_used, lru_clock,
          mw, memory, calls, mw_last, mw_hist,
          q_last,
          db, tbl, io_last, io_hist,
          heap, a_self, a_held, a_last

table_vars == <<storage, cache, next_id, last, issued, truncated_at>>

lru_vars == <<lru_capacity, lru_cache, lru_last, lru_used, lru_clock>>

mw_vars == <<mw, memory, calls, mw_last, mw_hist>>

q_vars == <<q_last>>

io_vars == <<db, tbl, io_last, io_hist>>

alias_vars == <<heap, a_self, a_held, a_last>>

vars == <<table_vars, lru_vars, mw_vars, q_vars, io_vars, alias_vars>>

\* ------------------------------------------------------------ Python values
None == <<>>
Some(x) == <<x>>
Value(o) == o[1]

PyInt(n) == [int |-> n]
PyStr(s) == [str |-> s]

RECURSIVE Digits(_)
Digits(n) == IF n < 10 THEN <<n>> ELSE Append(Digits(n \div 10), n % 10)

RECURSIVE Number(_)
Number(s) ==
    IF Len(s) = 0 THEN 0
    ELSE 10 * Number(SubSeq(s, 1, Len(s) - 1)) + s[Len(s)]

\* str(doc_id): the string form under which a document id is persisted.
py_str(k) == PyStr(Digits(k.int))

\* document_id_class(doc_id) with document_id_class = int.
document_id_class(k) == PyInt(Number(k.str))

\* ------------------------------------------------------------------- dict
DictHas(d, k) == \E i \in 1..Len(d) : d[i].key = k

DictGet(d, k) == d[CHOOSE i \in 1..Len(d) : d[i].key = k].doc

\* d[k] = v : an existing key keeps its place, a new key goes last.
DictSet(d, k, v) ==
    IF DictHas(d, k)
    THEN [i \in 1..Len(d) |-> IF d[i].key = k THEN [key |-> k, doc |-> v] ELSE d[i]]
    ELSE Append(d, [key |-> k, doc |-> v])

\* ------------------------------------------------------------- Document
Document(value, doc_id) == [doc_id |-> doc_id, value |-> value]

\* dict.update(fields) on a raw document.
DictMerge(doc, fields) ==
    [f \in DOMAIN doc \cup DOMAIN fields |->
        IF f \in DOMAIN fields THEN fields[f] ELSE doc[f]]

\* operations.delete(field): del doc[field] when the field is there.
delete(field, doc) == [f \in DOMAIN doc \ {field} |-> doc[f]]

\* ---------------------------------------------------------------- queries
\* QueryInstance(test, hashval): the test is the runner of a terminal
\* operation `kind` on `path` with operand `rhs`.
QueryInstance(kind, path, rhs, hashval) ==
    [kind |-> kind, path |-> path, rhs |-> rhs, hash |-> hashval]

\* Query.__eq__: hash ('==', path, freeze(rhs)).
Query_eq(path, rhs) == QueryInstance("==", path, rhs, Some(<<"==", path, rhs>>))

\* Query.exists: hash ('exists', path).
Query_exists(path) == QueryInstance("exists", path, 0, Some(<<"exists", path>>))

\* A query is cacheable when its hash is not None.
is_cacheable(cond) == cond.hash # None

\* The path walk of runner: value = value[part] for each part. A missing
\* field is a KeyError; the documents here hold integers only, so a second
\* step indexes an integer, a TypeError. Either way the walk fails (None).
Resolve(path, value) ==
    IF Len(path) = 1 /\ path[1] \in DOMAIN value
    THEN Some(value[path[1]])
    ELSE None

\* runner(value) of Query._generate_test: False when the walk fails, else
\* the terminal test on the value found.
runner(cond, value) ==
    LET found == Resolve(cond.path, value)
    IN  IF found = None THEN FALSE
        ELSE IF cond.kind = "==" THEN Value(found) = cond.rhs
        ELSE TRUE

\* QueryInstance.__call__ on a Document: the test sees the field mapping.
Call(cond, doc) == runner(cond, doc.value)

\* --------------------------------------------------------------- LRUCache
\* The OrderedDict is a sequence of [key, value], least recently used
\* first. A query is looked up by hash and __eq__, that is by its _hash.
LRU_contains(c, k) == \E i \in 1..Len(c) : c[i].key = k

LRU_without(c, k) == SelectSeq(c, LAMBDA e : e.key # k)

LRU_value(c, k) == c[CHOOSE i \in 1..Len(c) : c[i].key = k].value

\* __getitem__ returning the value without the pop and the reinsertion.
LRU_getitem_in_place(c, k) ==
    [cache |-> c, value |-> LRU_value(c, k)]

\* __getitem__ of a present key: pop it and put it back last.
LRU_getitem(c, k) ==
    [cache |-> Append(LRU_without(c, k), [key |-> k, value |-> LRU_value(c, k)]),
     value |-> LRU_value(c, k)]

\* __setitem__ with popitem(last=True): the newest entry is evicted.
LRU_setitem_evicts_newest(c, k, v, capacity) ==
    IF LRU_contains(c, k)
    THEN Append(LRU_without(c, k), [key |-> k, value |-> v])
    ELSE IF Len(c) >= capacity
         THEN Append(SubSeq(c, 1, Len(c) - 1), [key |-> k, value |-> v])
         ELSE Append(c, [key |-> k, value |-> v])

\* __setitem__ without the popitem at capacity.
LRU_setitem_no_evict(c, k, v, capacity) ==
    IF LRU_contains(c, k)
    THEN Append(LRU_without(c, k), [key |-> k, value |-> v])
    ELSE Append(c, [key |-> k, value |-> v])

\* __setitem__ without the del of a present key: the value is replaced
\* where it is.
LRU_setitem_in_place(c, k, v, capacity) ==
    IF LRU_contains(c, k)
    THEN [i \in 1..Len(c) |-> IF c[i].key = k THEN [key |-> k, value |-> v] ELSE c[i]]
    ELSE IF Len(c) >= capacity
         THEN Append(Tail(c), [key |-> k, value |-> v])
         ELSE Append(c, [key |-> k, value |-> v])

\* __setitem__: a present key is deleted first; a new key at capacity
\* pops the first (oldest) entry; then the entry is put last.
LRU_setitem(c, k, v, capacity) ==
    IF LRU_contains(c, k)
    THEN Append(LRU_without(c, k), [key |-> k, value |-> v])
    ELSE IF Len(c) >= capacity
         THEN Append(Tail(c), [key |-> k, value |-> v])
         ELSE Append(c, [key |-> k, value |-> v])

\* ------------------------------------------------------------------ Table
\* A Table object is [storage, cache, next_id]: `storage` is what the
\* storage holds for this table (None before the first write, else the raw
\* snapshot keyed by string-form ids), `cache` the query cache, `next_id`
\* the _next_id counter (None until it is computed). Every operation returns
\* [self, ret, ids]: the object afterwards, the value returned and the ids
\* it drew from _get_next_id.

\* _read_table: the raw snapshot, keys and documents not transformed; a
\* storage without data reads as the empty table.
_read_table(self) ==
    IF self.storage = None THEN <<>> ELSE Value(self.storage)

\* _update_table, before the updater: the snapshot read, keyed by int ids.
_update_table_read(self) ==
    LET raw == _read_table(self)
    IN  [i \in 1..Len(raw) |->
            [key |-> document_id_class(raw[i].key), doc |-> raw[i].doc]]

\* _update_table, after the updater: the whole table written back, keyed by
\* string-form ids, whether or not the updater changed it.
_update_table_write(self, table) ==
    [self EXCEPT !.storage =
        Some([i \in 1..Len(table) |->
                [key |-> py_str(table[i].key), doc |-> table[i].doc]])]

\* clear_cache: the query cache emptied, no I/O.
clear_cache(self) == [self EXCEPT !.cache = <<>>]

\* max(document_id_class(i) for i in table.keys()) of a raw snapshot.
MaxKey(table) ==
    CHOOSE m \in {document_id_class(table[i].key).int : i \in 1..Len(table)} :
        \A i \in 1..Len(table) : document_id_class(table[i].key).int <= m

\* _get_next_id: the cached counter when there is one, else 1 for an empty
\* table and 1 + the largest stored id otherwise; the counter is left at the
\* id after the one returned.
_get_next_id(self) ==
    IF self.next_id # None
    THEN [self |-> [self EXCEPT !.next_id = Some(Value(self.next_id) + 1)],
          id |-> Value(self.next_id)]
    ELSE LET table == _read_table(self)
             next == IF Len(table) = 0 THEN 1 ELSE MaxKey(table) + 1
         IN  [self |-> [self EXCEPT !.next_id = Some(next + 1)], id |-> next]

\* Table.insert without its clear_cache() call.
Table_insert_keeps_cache(self, document) ==
    LET g == _get_next_id(self)
        table == DictSet(_update_table_read(g.self), PyInt(g.id), document)
    IN  [self |-> _update_table_write(g.self, table),
         ret |-> g.id,
         ids |-> <<g.id>>]

\* Table.insert taking len(table) + 1 as the id instead of _get_next_id().
Table_insert_len_id(self, document) ==
    LET doc_id == Len(_update_table_read(self)) + 1
        table == DictSet(_update_table_read(self), PyInt(doc_id), document)
    IN  [self |-> clear_cache(_update_table_write(self, table)),
         ret |-> doc_id,
         ids |-> <<doc_id>>]

\* Table.insert
Table_insert(self, document) ==
    LET g == _get_next_id(self)
        table == DictSet(_update_table_read(g.self), PyInt(g.id), document)
    IN  [self |-> clear_cache(_update_table_write(g.self, table)),
         ret |-> g.id,
         ids |-> <<g.id>>]

\* The updater of insert_multiple with the id drawn from the Table as it was
\* before the loop: the counter's advance is lost between documents.
RECURSIVE insert_multiple_updater_same_id(_, _, _, _)
insert_multiple_updater_same_id(self, table, documents, doc_ids) ==
    IF Len(documents) = 0
    THEN [self |-> self, table |-> table, doc_ids |-> doc_ids]
    ELSE LET g == _get_next_id(self)
         IN  insert_multiple_updater_same_id(self,
                                             DictSet(table, PyInt(g.id), documents[1]),
                                             Tail(documents),
                                             Append(doc_ids, g.id))

\* The updater of insert_multiple: for each document an id is drawn and
\* table[doc_id] = document.
RECURSIVE insert_multiple_updater(_, _, _, _)
insert_multiple_updater(self, table, documents, doc_ids) ==
    IF Len(documents) = 0
    THEN [self |-> self, table |-> table, doc_ids |-> doc_ids]
    ELSE LET g == _get_next_id(self)
         IN  insert_multiple_updater(g.self,
                                     DictSet(table, PyInt(g.id), documents[1]),
                                     Tail(documents),
                                     Append(doc_ids, g.id))

\* Table.insert_multiple
Table_insert_multiple(self, documents) ==
    LET u == insert_multiple_updater(self, _update_table_read(self), documents, <<>>)
    IN  [self |-> clear_cache(_update_table_write(u.self, u.table)),
         ret |-> u.doc_ids,
         ids |-> u.doc_ids]

\* Table.all: every document of the snapshot wrapped with its int id.
Table_all(self) ==
    LET raw == _read_table(self)
    IN  [i \in 1..Len(raw) |->
            Document(raw[i].doc, document_id_class(raw[i].key).int)]

\* Table.search: a cached result when the cond is a key of the cache, else
\* all() filtered by cond, stored under cond and returned.
Table_search(self, cond) ==
    IF LRU_contains(self.cache, cond.hash)
    THEN LET g == LRU_getitem(self.cache, cond.hash)
         IN  [self |-> [self EXCEPT !.cache = g.cache], ret |-> g.value, ids |-> <<>>]
    ELSE LET docs == SelectSeq(Table_all(self), LAMBDA doc : Call(cond, doc))
         IN  [self |-> [self EXCEPT !.cache =
                            LRU_setitem(self.cache, cond.hash, docs, CacheSize)],
              ret |-> docs,
              ids |-> <<>>]

\* Table.get: doc_id before doc_ids before cond. The ids given are ints and
\* are looked up as they are in the raw snapshot _read_table returns.
Table_get(self, cond, doc_id, doc_ids) ==
    LET table == _read_table(self)
    IN  IF doc_id # None
        THEN [self |-> self,
              ret |-> IF DictHas(table, PyInt(Value(doc_id)))
                      THEN Some(Document(DictGet(table, PyInt(Value(doc_id))),
                                         Value(doc_id)))
                      ELSE None,
              ids |-> <<>>]
        ELSE IF doc_ids # None
        THEN LET ids == Value(doc_ids)
                 found == SelectSeq(ids, LAMBDA id : DictHas(table, PyInt(id)))
                 docs == [i \in 1..Len(found) |->
                             Document(DictGet(table, PyInt(found[i])), found[i])]
             IN  [self |-> self,
                  ret |-> IF Len(docs) > 0 THEN Some(docs) ELSE None,
                  ids |-> <<>>]
        ELSE IF cond # None
        THEN LET r == Table_search(self, Value(cond))
             IN  [self |-> r.self,
                  ret |-> IF Len(r.ret) > 0 THEN Some(r.ret[1]) ELSE None,
                  ids |-> <<>>]
        ELSE [self |-> self, ret |-> None, ids |-> <<>>]

\* Table.contains
Table_contains(self, cond, doc_id) ==
    IF doc_id # None
    THEN [self |-> self,
          ret |-> DictHas(_read_table(self), PyInt(Value(doc_id))),
          ids |-> <<>>]
    ELSE IF cond # None
    THEN LET r == Table_search(self, Value(cond))
         IN  [self |-> r.self, ret |-> Len(r.ret) > 0, ids |-> <<>>]
    ELSE [self |-> self, ret |-> FALSE, ids |-> <<>>]

\* `fields` of update is a mapping, [map |-> m], or a callable, here
\* operations.delete(field) as [delete |-> field].
callable(fields) == "delete" \in DOMAIN fields

\* fields(doc) for a callable, doc.update(fields) for a mapping.
apply_fields(fields, doc) ==
    IF callable(fields) THEN delete(fields.delete, doc)
    ELSE DictMerge(doc, fields.map)

\* The test of update's updater with doc_ids taking precedence: cond is
\* looked at only when doc_ids is None.
update_matches_ids_first(entry, cond, doc_ids) ==
    IF doc_ids # None
    THEN \E j \in 1..Len(Value(doc_ids)) : PyInt(Value(doc_ids)[j]) = entry.key
    ELSE cond = None \/ runner(Value(cond), entry.doc)

\* The test of update's updater on one entry of the int-keyed table:
\* (doc_ids is None or doc_id in doc_ids) and (cond is None or cond(doc)).
update_matches(entry, cond, doc_ids) ==
    /\ \/ doc_ids = None
       \/ \E j \in 1..Len(Value(doc_ids)) : PyInt(Value(doc_ids)[j]) = entry.key
    /\ \/ cond = None
       \/ runner(Value(cond), entry.doc)

\* Table.update stopping at the first match.
Table_update_first_match(self, fields, cond, doc_ids) ==
    LET table == _update_table_read(self)
        hits == {i \in 1..Len(table) : update_matches(table[i], cond, doc_ids)}
        first == {i \in hits : \A j \in hits : i <= j}
        updated == [i \in 1..Len(table) |->
                       IF i \in first
                       THEN [key |-> table[i].key,
                             doc |-> apply_fields(fields, table[i].doc)]
                       ELSE table[i]]
    IN  [self |-> clear_cache(_update_table_write(self, updated)),
         ret |-> IF first = {} THEN <<>> ELSE <<table[CHOOSE i \in first : TRUE].key.int>>,
         ids |-> <<>>]

\* Table.update without its clear_cache() call.
Table_update_keeps_cache(self, fields, cond, doc_ids) ==
    LET table == _update_table_read(self)
        hit == SelectSeq(table, LAMBDA e : update_matches(e, cond, doc_ids))
        updated == [i \in 1..Len(table) |->
                       IF update_matches(table[i], cond, doc_ids)
                       THEN [key |-> table[i].key,
                             doc |-> apply_fields(fields, table[i].doc)]
                       ELSE table[i]]
    IN  [self |-> _update_table_write(self, updated),
         ret |-> [i \in 1..Len(hit) |-> hit[i].key.int],
         ids |-> <<>>]

\* Table.update
Table_update(self, fields, cond, doc_ids) ==
    LET table == _update_table_read(self)
        hit == SelectSeq(table, LAMBDA e : update_matches(e, cond, doc_ids))
        updated == [i \in 1..Len(table) |->
                       IF update_matches(table[i], cond, doc_ids)
                       THEN [key |-> table[i].key,
                             doc |-> apply_fields(fields, table[i].doc)]
                       ELSE table[i]]
    IN  [self |-> clear_cache(_update_table_write(self, updated)),
         ret |-> [i \in 1..Len(hit) |-> hit[i].key.int],
         ids |-> <<>>]

\* Table.remove with doc_ids taking precedence over cond.
Table_remove_ids_first(self, cond, doc_ids) ==
    LET table == _update_table_read(self)
        hit == SelectSeq(table, LAMBDA e : update_matches_ids_first(e, cond, doc_ids))
        kept == SelectSeq(table, LAMBDA e : ~update_matches_ids_first(e, cond, doc_ids))
    IN  [self |-> clear_cache(_update_table_write(self, kept)),
         ret |-> [i \in 1..Len(hit) |-> hit[i].key.int],
         ids |-> <<>>]

\* Table.remove: the matching rule of update; the matches are deleted and
\* their ids returned.
Table_remove(self, cond, doc_ids) ==
    LET table == _update_table_read(self)
        hit == SelectSeq(table, LAMBDA e : update_matches(e, cond, doc_ids))
        kept == SelectSeq(table, LAMBDA e : ~update_matches(e, cond, doc_ids))
    IN  [self |-> clear_cache(_update_table_write(self, kept)),
         ret |-> [i \in 1..Len(hit) |-> hit[i].key.int],
         ids |-> <<>>]

\* Table.truncate leaving the _next_id counter as it is.
Table_truncate_keeps_counter(self) ==
    [self |-> clear_cache(_update_table_write(self, <<>>)),
     ret |-> None,
     ids |-> <<>>]

\* Table.truncate: an empty snapshot written, the counter back to None, the
\* cache cleared.
Table_truncate(self) ==
    [self |-> clear_cache([_update_table_write(self, <<>>) EXCEPT !.next_id = None]),
     ret |-> None,
     ids |-> <<>>]

\* The pairs of update_multiple with every cond put to the document as it
\* was before the call.
RECURSIVE apply_updates_to_original(_, _, _)
apply_updates_to_original(doc, updates, hit) ==
    IF Len(updates) = 0 THEN [doc |-> doc, hit |-> hit]
    ELSE LET r == apply_updates_to_original(doc, Tail(updates), hit)
         IN  IF runner(updates[1].cond, doc)
             THEN [doc |-> apply_fields(updates[1].fields, r.doc), hit |-> TRUE]
             ELSE r

\* One document taken through the (fields, cond) pairs of update_multiple in
\* list order: a later cond sees what an earlier pair has done.
RECURSIVE apply_updates(_, _, _)
apply_updates(doc, updates, hit) ==
    IF Len(updates) = 0 THEN [doc |-> doc, hit |-> hit]
    ELSE IF runner(updates[1].cond, doc)
         THEN apply_updates(apply_fields(updates[1].fields, doc), Tail(updates), TRUE)
         ELSE apply_updates(doc, Tail(updates), hit)

\* Table.update_multiple: one pass over the table, one write; the ids of
\* the documents some pair matched are returned.
Table_update_multiple(self, updates) ==
    LET table == _update_table_read(self)
        done == [i \in 1..Len(table) |-> apply_updates(table[i].doc, updates, FALSE)]
        updated == [i \in 1..Len(table) |-> [key |-> table[i].key, doc |-> done[i].doc]]
        hit == SelectSeq([i \in 1..Len(table) |-> [key |-> table[i].key, hit |-> done[i].hit]],
                         LAMBDA e : e.hit)
    IN  [self |-> clear_cache(_update_table_write(self, updated)),
         ret |-> [i \in 1..Len(hit) |-> hit[i].key.int],
         ids |-> <<>>]

\* Table.upsert: update(document, cond), and insert(document) when that
\* matched no document.
Table_upsert(self, document, cond) ==
    LET u == Table_update(self, [map |-> document], Some(cond), None)
        i == Table_insert(u.self, document)
    IN  IF Len(u.ret) > 0 THEN u
        ELSE [self |-> i.self, ret |-> <<i.ret>>, ids |-> i.ids]

\* ----------------------------------------------------------------- inputs
Documents == {[a |-> 0], [a |-> 1]}

DocumentLists == {<<>>, <<[a |-> 1]>>, <<[a |-> 0], [a |-> 1]>>}

\* update's fields: the mapping {'a': 1} and the callable delete('a').
FieldsIn == {[map |-> [a |-> 1]], [delete |-> "a"]}

\* where('a') == 1 and where('a').exists(), both cacheable.
QA == Query_eq(<<"a">>, 1)
QE == Query_exists(<<"a">>)

\* Two query instances built with hashval None (not cacheable).
NA == QueryInstance("==", <<"a">>, 0, None)
NE == QueryInstance("exists", <<"a">>, 0, None)

Conds == {QA, QE, NA, NE}

\* The conds and doc_ids handed to update and remove.
CondOpt == {None, Some(QA), Some(NA)}

IdListOpt == {None, Some(<<1>>), Some(<<2, 3>>)}

Ids == 1..MaxIssued

\* update_multiple's pairs: set a to 1 where a is 0, then delete a where a
\* is 1.
UpdateLists ==
    {<<>>,
     <<[fields |-> [map |-> [a |-> 1]], cond |-> NA],
       [fields |-> [delete |-> "a"], cond |-> QA]>>}

\* ------------------------------------------------------------------ state
\* storage, cache, next_id: the Table object. last: the last call, its
\* arguments and what it returned. issued: the ids _get_next_id has
\* returned, in order. truncated_at: how many ids had been issued when
\* truncate was last called (0 when it was not).

\* The value a call returned, or the argument it was given, tagged with its
\* Python type, so that values of different types are unequal.
Py(type, value) == [t \in {type} |-> value]

NoArg == Py("none", None)

Self == [storage |-> storage, cache |-> cache, next_id |-> next_id]

\* Table.__init__ on a storage that holds nothing yet.
Table_init ==
    /\ storage = None
    /\ cache = <<>>
    /\ next_id = None
    /\ last = [op |-> "init", arg |-> NoArg, ret |-> Py("none", None)]
    /\ issued = <<>>
    /\ truncated_at = 0

\* LRUCache.__init__(capacity). lru_last: the last call. lru_used: for each
\* key held, the time of its most recent access (set, or get that found
\* it). lru_clock: the number of accesses made.
LRUCache_init(capacity) ==
    /\ lru_capacity = capacity
    /\ lru_cache = <<>>
    /\ lru_last = [op |-> "init", key |-> "", value |-> 0, ret |-> Py("none", None),
                   raised |-> FALSE]
    /\ lru_used = <<>>
    /\ lru_clock = 0

\* CachingMiddleware.__init__ and __call__ with WRITE_CACHE_SIZE set on the
\* instance, around a MemoryStorage whose memory is `held`. calls: the calls
\* the wrapped storage has received. mw_last: the last call. mw_hist: how
\* many calls the middleware has received, how many of them write and how
\* many flush, the data of its last write, and whether it was closed.
CachingMiddleware_init(size, held) ==
    /\ mw = [cache |-> None, _cache_modified_count |-> 0, WRITE_CACHE_SIZE |-> size]
    /\ memory = held
    /\ calls = <<>>
    /\ mw_last = [op |-> "init", data |-> None, ret |-> None]
    /\ mw_hist = [made |-> 0, writes |-> 0, flushes |-> 0, written |-> None,
                   closed |-> FALSE]

\* No query has been evaluated.
Query_init ==
    q_last = [op |-> "init"]

\* The tables and the callers that share one storage. A caller is a Table
\* on that storage: caller 1 is table t, caller 2 table t or table u.
Names == {"t", "u"}

Callers == {1, 2}

\* A Table(storage, name) between calls: pc is the caller's position, op and
\* arg the call in progress, tables the mapping _update_table has read, id
\* the id insert has drawn, log the storage calls of the call in progress.
Table_idle(name) ==
    [name |-> name, next_id |-> None, pc |-> "idle", op |-> "", arg |-> None,
     counted |-> FALSE, tables |-> None, id |-> 0, log |-> <<>>]

\* An empty storage (MemoryStorage.__init__: memory = None) and the two
\* Tables on it. io_last is the last call that returned; io_hist counts the
\* calls begun, notes whether a write was made from a snapshot the storage
\* no longer held, and lists the calls that returned and the ids each
\* caller was issued, all of them and those since its last truncate.
Sharing_init(name) ==
    /\ db = None
    /\ tbl = [c \in Callers |-> Table_idle(IF c = 1 THEN "t" ELSE name)]
    /\ io_last = [op |-> "init"]
    /\ io_hist = [begun |-> 0, stale |-> FALSE, done |-> <<>>,
                  issued |-> [c \in Callers |-> <<>>],
                  since |-> [c \in Callers |-> <<>>]]

\* The objects a Table has handed out: none.
Alias_init ==
    /\ heap = <<>>
    /\ a_self = [storage |-> None, cache |-> <<>>, next_id |-> None]
    /\ a_held = {}
    /\ a_last = [op |-> "init"]

Init ==
    /\ Table_init
    /\ LRUCache_init(0)
    /\ CachingMiddleware_init(1, None)
    /\ Query_init
    /\ Sharing_init("t")
    /\ Alias_init

\* A call with result r; a call that would issue more than MaxIssued ids in
\* all is left out.
Apply(op, arg, type, r) ==
    /\ Len(issued) + Len(r.ids) <= MaxIssued
    /\ storage' = r.self.storage
    /\ cache' = r.self.cache
    /\ next_id' = r.self.next_id
    /\ last' = [op |-> op, arg |-> arg, ret |-> Py(type, r.ret)]
    /\ issued' = issued \o r.ids
    /\ truncated_at' = IF op = "truncate" THEN Len(issued) ELSE truncated_at
    /\ UNCHANGED <<lru_vars, mw_vars, q_vars, io_vars, alias_vars>>

insert(document) ==
    /\ Apply("insert", Py("document", document), "int",
             Table_insert(Self, document))

insert_multiple(documents) ==
    /\ Apply("insert_multiple", Py("documents", documents), "ids",
             Table_insert_multiple(Self, documents))

all ==
    /\ Apply("all", NoArg, "docs",
             [self |-> Self, ret |-> Table_all(Self), ids |-> <<>>])

search(cond) ==
    /\ Apply("search", Py("cond", cond), "docs", Table_search(Self, cond))

\* get returns a Document or None, and with doc_ids a list or None.
get(cond, doc_id, doc_ids) ==
    /\ Apply("get", [cond |-> cond, doc_id |-> doc_id, doc_ids |-> doc_ids],
             IF doc_id = None /\ doc_ids # None THEN "optional_docs"
             ELSE "optional_doc",
             Table_get(Self, cond, doc_id, doc_ids))

contains(cond, doc_id) ==
    /\ Apply("contains", [cond |-> cond, doc_id |-> doc_id], "bool",
             Table_contains(Self, cond, doc_id))

update(fields, cond, doc_ids) ==
    /\ Apply("update", [fields |-> fields, cond |-> cond, doc_ids |-> doc_ids],
             "ids", Table_update(Self, fields, cond, doc_ids))

update_multiple(updates) ==
    /\ Apply("update_multiple", Py("updates", updates), "ids",
             Table_update_multiple(Self, updates))

upsert(document, cond) ==
    /\ Apply("upsert", [document |-> document, cond |-> cond], "ids",
             Table_upsert(Self, document, cond))

remove(cond, doc_ids) ==
    /\ Apply("remove", [cond |-> cond, doc_ids |-> doc_ids], "ids",
             Table_remove(Self, cond, doc_ids))

truncate ==
    /\ Apply("truncate", NoArg, "none", Table_truncate(Self))

Next ==
    \/ \E d \in Documents : insert(d)
    \/ \E ds \in DocumentLists : insert_multiple(ds)
    \/ all
    \/ \E c \in Conds : search(c)
    \/ \E i \in Ids : get(None, Some(i), None)
    \/ get(None, None, Some(<<1, 2>>))
    \/ get(Some(QA), None, None)
    \/ \E i \in Ids : contains(None, Some(i))
    \/ contains(Some(QA), None)
    \/ \E f \in FieldsIn, c \in CondOpt, l \in IdListOpt : update(f, c, l)
    \/ \E us \in UpdateLists : update_multiple(us)
    \/ \E d \in Documents, c \in {QA, NA} : upsert(d, c)
    \/ \E c \in CondOpt, l \in IdListOpt : remove(c, l)
    \/ truncate

Spec == Init /\ [][Next]_vars

\* ------------------------------------------------------- LRUCache alone
\* The keys of the OrderedDict.
LRU_keys(c) == {c[i].key : i \in 1..Len(c)}

\* __setitem__ raises when its popitem(last=False) finds the OrderedDict
\* empty (KeyError): the key is new, len(cache) >= capacity and len is 0.
LRU_setitem_raises(c, k, capacity) ==
    /\ ~LRU_contains(c, k)
    /\ Len(c) >= capacity
    /\ Len(c) = 0

\* LRUCache.set: self[key] = value. The exception leaves the cache as it
\* was.
LRU_set(c, k, v, capacity) ==
    IF LRU_setitem_raises(c, k, capacity)
    THEN [cache |-> c, raised |-> TRUE]
    ELSE [cache |-> LRU_setitem(c, k, v, capacity), raised |-> FALSE]

\* LRUCache.get: self[key], and default when that raises KeyError.
LRU_get(c, k, default) ==
    IF LRU_contains(c, k) THEN LRU_getitem(c, k)
    ELSE [cache |-> c, value |-> default]

\* LRUCache.__delitem__: del self.cache[key], KeyError for an absent key.
LRU_delitem(c, k) ==
    IF LRU_contains(c, k)
    THEN [cache |-> LRU_without(c, k), raised |-> FALSE]
    ELSE [cache |-> c, raised |-> TRUE]

LRUKeys == {"a", "b", "c"}

LRUValues == {1, 2, 3}

LRUDefaults == {0}

Capacities == 0..MaxCapacity

\* The access times after a call that left the cache as c: the key touched
\* (if it is held) was used now, the other keys held as before.
LRU_used_after(c, touched, now) ==
    [k \in LRU_keys(c) |-> IF k = touched THEN now ELSE lru_used[k]]

lru_set(k, v) ==
    /\ lru_clock < MaxClock
    /\ LET r == LRU_set(lru_cache, k, v, lru_capacity)
           now == IF r.raised THEN lru_clock ELSE lru_clock + 1
       IN  /\ lru_cache' = r.cache
           /\ lru_clock' = now
           /\ lru_used' = LRU_used_after(r.cache, k, now)
           /\ lru_last' = [op |-> "set", key |-> k, value |-> v,
                           ret |-> Py("none", None), raised |-> r.raised]
    /\ UNCHANGED <<lru_capacity, table_vars, mw_vars, q_vars, io_vars, alias_vars>>

lru_get(k, default) ==
    /\ lru_clock < MaxClock
    /\ LET r == LRU_get(lru_cache, k, default)
           now == IF LRU_contains(lru_cache, k) THEN lru_clock + 1 ELSE lru_clock
       IN  /\ lru_cache' = r.cache
           /\ lru_clock' = now
           /\ lru_used' = LRU_used_after(r.cache, k, now)
           /\ lru_last' = [op |-> "get", key |-> k, value |-> default,
                           ret |-> Py("int", r.value), raised |-> FALSE]
    /\ UNCHANGED <<lru_capacity, table_vars, mw_vars, q_vars, io_vars, alias_vars>>

lru_delitem(k) ==
    /\ LET r == LRU_delitem(lru_cache, k)
       IN  /\ lru_cache' = r.cache
           /\ lru_used' = LRU_used_after(r.cache, k, lru_clock)
           /\ lru_last' = [op |-> "delete", key |-> k, value |-> 0,
                           ret |-> Py("none", None), raised |-> r.raised]
    /\ UNCHANGED <<lru_capacity, lru_clock, table_vars, mw_vars, q_vars, io_vars, alias_vars>>

lru_contains(k) ==
    /\ lru_last' = [op |-> "contains", key |-> k, value |-> 0,
                    ret |-> Py("bool", LRU_contains(lru_cache, k)), raised |-> FALSE]
    /\ UNCHANGED <<lru_capacity, lru_cache, lru_used, lru_clock,
                   table_vars, mw_vars, q_vars, io_vars, alias_vars>>

LRUInit ==
    /\ \E n \in Capacities : LRUCache_init(n)
    /\ Table_init
    /\ CachingMiddleware_init(1, None)
    /\ Query_init
    /\ Sharing_init("t")
    /\ Alias_init

LRUNext ==
    \/ \E k \in LRUKeys, v \in LRUValues : lru_set(k, v)
    \/ \E k \in LRUKeys, d \in LRUDefaults : lru_get(k, d)
    \/ \E k \in LRUKeys : lru_delitem(k)
    \/ \E k \in LRUKeys : lru_contains(k)

LRUSpec == LRUInit /\ [][LRUNext]_vars

\* ----------------------------------------------------------------- claims
Mutators ==
    {"insert", "insert_multiple", "update", "update_multiple", "upsert",
     "remove", "truncate"}

\* C1: whatever calls came before, a search with a cacheable cond returns
\* exactly the documents of the current all() on which cond holds, in the
\* order of all(); a result cached before a mutation is never returned
\* after it.
C1_SearchIsFilterOfAll ==
    (last.op = "search" /\ is_cacheable(last.arg.cond)) =>
        last.ret.docs = SelectSeq(Table_all(Self), LAMBDA doc : Call(last.arg.cond, doc))

\* A cacheable search that kept one of two stored documents, with two
\* results in the cache.
C1_Witness ==
    /\ last.op = "search"
    /\ is_cacheable(last.arg.cond)
    /\ Len(Table_all(Self)) = 2
    /\ Len(last.ret.docs) = 1
    /\ Len(cache) = 2

\* C2: when a mutating call has returned, the query cache has no entry,
\* also when the call matched or changed nothing.
C2_MutationClearsCache ==
    last.op \in Mutators => Len(cache) = 0

\* An update that matched no document of a non-empty table has returned.
C2_Witness ==
    /\ last.op = "update"
    /\ Len(last.ret.ids) = 0
    /\ Len(Table_all(Self)) > 0
    /\ Len(cache) = 0

StrictlyIncreasing(s) == \A i, j \in 1..Len(s) : i < j => s[i] < s[j]

NoRepeat(s) == \A i, j \in 1..Len(s) : i # j => s[i] # s[j]

\* C3: on a table that starts empty and is not truncated after an id was
\* issued, the first id issued is 1 and every id issued is greater than all
\* ids issued before it, removed documents' ids included.
C3_IdsIncrease ==
    truncated_at = 0 =>
        /\ StrictlyIncreasing(issued)
        /\ Len(issued) > 0 => issued[1] = 1

\* Id 1 was issued and removed, and the insert after that returned 2.
C3_Witness ==
    /\ truncated_at = 0
    /\ issued = <<1, 2>>
    /\ last.op = "insert"
    /\ last.ret.int = 2
    /\ Len(Table_all(Self)) = 1

SelfNext == [storage |-> storage', cache |-> cache', next_id |-> next_id']

\* The ids of a list of Documents, in order.
DocIds(docs) == [i \in 1..Len(docs) |-> docs[i].doc_id]

\* C5: after insert(d) has returned i, get(doc_id=i) returns the document
\* with id i and fields d, contains(doc_id=i) is true and all() holds
\* exactly one document with id i (here: for the call that follows the
\* insert, so document i is neither removed, truncated nor updated).
C5_InsertGetRoundTrip ==
    [][last.op = "insert" =>
        /\ (last'.op = "get" /\ last'.arg.doc_id = Some(last.ret.int)) =>
               last'.ret.optional_doc =
                   Some(Document(last.arg.document, last.ret.int))
        /\ (last'.op = "contains" /\ last'.arg.doc_id = Some(last.ret.int)) =>
               last'.ret.bool = TRUE
        /\ last'.op = "all" =>
               Cardinality({i \in 1..Len(last'.ret.docs) :
                               last'.ret.docs[i].doc_id = last.ret.int}) = 1]_vars

\* The matching rule the claims state for update and remove, on a Document.
RuleMatches(doc, cond, doc_ids) ==
    /\ \/ doc_ids = None
       \/ \E j \in 1..Len(Value(doc_ids)) : Value(doc_ids)[j] = doc.doc_id
    /\ \/ cond = None
       \/ Call(Value(cond), doc)

C6_UpdatePost(f, c, l) ==
    LET before == Table_all(Self)
        after == Table_all(SelfNext)
    IN  /\ Len(after) = Len(before)
        /\ \A i \in 1..Len(before) :
              /\ after[i].doc_id = before[i].doc_id
              /\ after[i].value =
                     IF RuleMatches(before[i], c, l)
                     THEN apply_fields(f, before[i].value)
                     ELSE before[i].value
        /\ last'.ret.ids = DocIds(SelectSeq(before, LAMBDA d : RuleMatches(d, c, l)))

\* C6: update(fields, cond, doc_ids) modifies, and returns the ids of,
\* exactly the documents with (doc_ids absent or id in doc_ids) and (cond
\* absent or cond holds); the others are unchanged, none is added or removed.
C6_UpdateExactlyMatches ==
    [][last'.op = "update" =>
          C6_UpdatePost(last'.arg.fields, last'.arg.cond, last'.arg.doc_ids)]_vars

\* An update given both a cond and doc_ids has matched one of two stored
\* documents.
C6_Witness ==
    /\ last.op = "update"
    /\ last.arg.cond # None
    /\ last.arg.doc_ids # None
    /\ Len(last.ret.ids) = 1
    /\ Len(Table_all(Self)) = 2

C7_RemovePost(c, l) ==
    LET before == Table_all(Self)
        after == Table_all(SelfNext)
    IN  /\ after = SelectSeq(before, LAMBDA d : ~RuleMatches(d, c, l))
        /\ last'.ret.ids = DocIds(SelectSeq(before, LAMBDA d : RuleMatches(d, c, l)))

\* C7: remove(cond, doc_ids) deletes, and returns the ids of, exactly the
\* documents matched by the rule of update; every other document stays with
\* its id and fields.
C7_RemoveExactlyMatches ==
    [][last'.op = "remove" =>
          C7_RemovePost(last'.arg.cond, last'.arg.doc_ids)]_vars

\* remove(doc_ids=[1]) without a cond has deleted document 1 and left the
\* other document.
C7_Witness ==
    /\ last.op = "remove"
    /\ last.arg.cond = None
    /\ last.arg.doc_ids = Some(<<1>>)
    /\ last.ret.ids = <<1>>
    /\ Len(Table_all(Self)) = 1

C8_UpsertPost(d, c) ==
    LET before == Table_all(Self)
        after == Table_all(SelfNext)
        matched == SelectSeq(before, LAMBDA doc : Call(c, doc))
    IN  IF Len(matched) > 0
        THEN /\ Len(after) = Len(before)
             /\ \A i \in 1..Len(before) :
                   /\ after[i].doc_id = before[i].doc_id
                   /\ after[i].value =
                          IF Call(c, before[i])
                          THEN DictMerge(before[i].value, d)
                          ELSE before[i].value
             /\ last'.ret.ids = DocIds(matched)
             /\ issued' = issued
        ELSE /\ Len(after) = Len(before) + 1
             /\ SubSeq(after, 1, Len(before)) = before
             /\ after[Len(after)].value = d
             /\ last'.ret.ids = <<after[Len(after)].doc_id>>
             /\ issued' = Append(issued, after[Len(after)].doc_id)
             /\ \A i \in 1..Len(before) :
                   before[i].doc_id # after[Len(after)].doc_id

\* C8: upsert(document, cond) updates every document on which cond holds
\* and returns their ids, the count unchanged, when there is one; else it
\* inserts exactly one document and returns the one id just issued.
C8_UpsertUpdatesAllOrInsertsOne ==
    [][last'.op = "upsert" =>
          C8_UpsertPost(last'.arg.document, last'.arg.cond)]_vars

\* An upsert has updated two documents.
C8_Witness ==
    /\ last.op = "upsert"
    /\ Len(last.ret.ids) = 2

\* C9: after truncate the table and all() are empty, the cache is empty and
\* the counter is as at construction; the first id issued after a truncate
\* is the 1 an empty new table issues.
C9_TruncateResets ==
    /\ last.op = "truncate" =>
           /\ Len(_read_table(Self)) = 0
           /\ Len(Table_all(Self)) = 0
           /\ Len(cache) = 0
           /\ next_id = None
    /\ Len(issued) > truncated_at => issued[truncated_at + 1] = 1

\* An insert has returned 1 after a truncate of a table that had issued an
\* id.
C9_Witness ==
    /\ truncated_at = 1
    /\ last.op = "insert"
    /\ last.ret.int = 1

\* C10: no query whose hash is None is a key of the query cache, and a
\* search with such a cond returns the filter of the current snapshot.
C10_NonCacheableNeverCached ==
    /\ \A i \in 1..Len(cache) : cache[i].key # None
    /\ (last.op = "search" /\ ~is_cacheable(last.arg.cond)) =>
           last.ret.docs = SelectSeq(Table_all(Self), LAMBDA doc : Call(last.arg.cond, doc))

\* ------------------------------------- CachingMiddleware on MemoryStorage
\* The wrapped storage is [memory, calls]: what MemoryStorage holds (None
\* or the data last written) and the calls it has received, in order.
StorageCall(name, data) == [call |-> name, data |-> data]

\* MemoryStorage.read
MemoryStorage_read(st) ==
    [st |-> [st EXCEPT !.calls = Append(@, StorageCall("read", None))],
     ret |-> st.memory]

\* MemoryStorage.write
MemoryStorage_write(st, data) ==
    [memory |-> Some(data), calls |-> Append(st.calls, StorageCall("write", Some(data)))]

\* MemoryStorage.close
MemoryStorage_close(st) ==
    [memory |-> None, calls |-> Append(st.calls, StorageCall("close", None))]

\* CachingMiddleware.read that asks the wrapped storage every time.
CachingMiddleware_read_through(self, st) ==
    LET r == MemoryStorage_read(st)
    IN  [self |-> [self EXCEPT !.cache = r.ret], st |-> r.st, ret |-> r.ret]

\* CachingMiddleware.read
CachingMiddleware_read(self, st) ==
    IF self.cache = None
    THEN LET r == MemoryStorage_read(st)
         IN  [self |-> [self EXCEPT !.cache = r.ret], st |-> r.st, ret |-> r.ret]
    ELSE [self |-> self, st |-> st, ret |-> self.cache]

\* CachingMiddleware.flush leaving _cache_modified_count as it is.
CachingMiddleware_flush_keeps_count(self, st) ==
    IF self.cache # None
    THEN [self |-> self, st |-> MemoryStorage_write(st, Value(self.cache))]
    ELSE [self |-> self, st |-> st]

\* CachingMiddleware.flush
CachingMiddleware_flush(self, st) ==
    IF self.cache # None
    THEN [self |-> [self EXCEPT !._cache_modified_count = 0],
          st |-> MemoryStorage_write(st, Value(self.cache))]
    ELSE [self |-> self, st |-> st]

\* CachingMiddleware.write flushing when the count exceeds WRITE_CACHE_SIZE.
CachingMiddleware_write_flush_later(self, st, data) ==
    LET written == [self EXCEPT !.cache = Some(data),
                                !._cache_modified_count = @ + 1]
    IN  IF written._cache_modified_count > written.WRITE_CACHE_SIZE
        THEN CachingMiddleware_flush(written, st)
        ELSE [self |-> written, st |-> st]

\* CachingMiddleware.write
CachingMiddleware_write(self, st, data) ==
    LET written == [self EXCEPT !.cache = Some(data),
                                !._cache_modified_count = @ + 1]
    IN  IF written._cache_modified_count >= written.WRITE_CACHE_SIZE
        THEN CachingMiddleware_flush(written, st)
        ELSE [self |-> written, st |-> st]

\* CachingMiddleware.close with the storage closed before the flush.
CachingMiddleware_close_first(self, st) ==
    CachingMiddleware_flush(self, MemoryStorage_close(st))

\* CachingMiddleware.close
CachingMiddleware_close(self, st) ==
    LET f == CachingMiddleware_flush(self, st)
    IN  [self |-> f.self, st |-> MemoryStorage_close(f.st)]

\* The data written through the middleware, and what the wrapped storage
\* may hold at the start.
MWData == {"d1", "d2"}

MWHeld == {None, Some("d0")}

Thresholds == 1..MaxThreshold

Wrapped == [memory |-> memory, calls |-> calls]

\* A call on a middleware that is not closed; its effect r on the
\* middleware and on the wrapped storage.
MWApply(op, data, ret, r) ==
    /\ ~mw_hist.closed
    /\ mw_hist.made < MaxCalls
    /\ mw' = r.self
    /\ memory' = r.st.memory
    /\ calls' = r.st.calls
    /\ mw_last' = [op |-> op, data |-> data, ret |-> ret]
    /\ mw_hist' = [made |-> mw_hist.made + 1,
                   writes |-> mw_hist.writes + (IF op = "write" THEN 1 ELSE 0),
                   flushes |-> mw_hist.flushes + (IF op = "flush" THEN 1 ELSE 0),
                   written |-> IF op = "write" THEN data ELSE mw_hist.written,
                   closed |-> op = "close"]
    /\ UNCHANGED <<table_vars, lru_vars, q_vars, io_vars, alias_vars>>

mw_read ==
    /\ MWApply("read", None, CachingMiddleware_read(mw, Wrapped).ret,
               CachingMiddleware_read(mw, Wrapped))

mw_write(data) ==
    /\ MWApply("write", Some(data), None, CachingMiddleware_write(mw, Wrapped, data))

mw_flush ==
    /\ MWApply("flush", None, None, CachingMiddleware_flush(mw, Wrapped))

mw_close ==
    /\ MWApply("close", None, None, CachingMiddleware_close(mw, Wrapped))

MWInit ==
    /\ \E size \in Thresholds, held \in MWHeld : CachingMiddleware_init(size, held)
    /\ Table_init
    /\ LRUCache_init(0)
    /\ Query_init
    /\ Sharing_init("t")
    /\ Alias_init

MWNext ==
    \/ mw_read
    \/ \E data \in MWData : mw_write(data)
    \/ mw_flush
    \/ mw_close

MWSpec == MWInit /\ [][MWNext]_vars

\* ------------------------------------------------- evaluation of queries
\* Documents here hold Python values of several types: [int |-> n],
\* [str |-> sequence of characters], [list |-> sequence of values] and
\* [dict |-> function from field names to values]. A call returns
\* [ok |-> value] or raises, [raise |-> name of the exception class].
PyList(s) == [list |-> s]
PyDict(d) == [dict |-> d]

Ok(v) == [ok |-> v]
Raise(exc) == [raise |-> exc]
Raises(r) == "raise" \in DOMAIN r

isinstance(v, type) == type \in DOMAIN v

\* A part of a query path: a field name, or a callable added with map(fn).
Field(item) == [field |-> item]
Fn(name) == [fn |-> name]

\* Query.__getattr__ / __getitem__ and Query.map: the path one part longer.
Query_getattr(path, item) == Append(path, Field(item))
Query_map(path, fn) == Append(path, Fn(fn))

\* value[part] for a field name: a dict gives the value or KeyError; a
\* list or a str takes integer indices only and an int is not
\* subscriptable, TypeError.
getitem(value, item) ==
    IF isinstance(value, "dict")
    THEN IF item \in DOMAIN value.dict THEN Ok(value.dict[item]) ELSE Raise("KeyError")
    ELSE Raise("TypeError")

\* str.upper() on the characters used here.
upper(ch) == IF ch = "x" THEN "X" ELSE ch

\* part(value) for the callables given to map:
\*   len                  TypeError for an int;
\*   lambda v: v[0]       IndexError for an empty list or str, KeyError for
\*                        a dict without the key 0, TypeError for an int;
\*   lambda v: v.upper()  AttributeError for anything but a str.
transform(fn, value) ==
    IF fn = "len"
    THEN IF isinstance(value, "list") THEN Ok(PyInt(Len(value.list)))
         ELSE IF isinstance(value, "str") THEN Ok(PyInt(Len(value.str)))
         ELSE IF isinstance(value, "dict") THEN Ok(PyInt(Cardinality(DOMAIN value.dict)))
         ELSE Raise("TypeError")
    ELSE IF fn = "first"
    THEN IF isinstance(value, "list")
         THEN IF Len(value.list) > 0 THEN Ok(value.list[1]) ELSE Raise("IndexError")
         ELSE IF isinstance(value, "str")
         THEN IF Len(value.str) > 0 THEN Ok(PyStr(<<value.str[1]>>)) ELSE Raise("IndexError")
         ELSE IF isinstance(value, "dict") THEN Raise("KeyError")
         ELSE Raise("TypeError")
    ELSE IF isinstance(value, "str")
         THEN Ok(PyStr([i \in 1..Len(value.str) |-> upper(value.str[i])]))
         ELSE Raise("AttributeError")

\* The loop of runner over the path: part(value) for a callable, else
\* value[part]; the first exception ends it.
RECURSIVE walk(_, _)
walk(path, value) ==
    IF Len(path) = 0 THEN Ok(value)
    ELSE LET step == IF "fn" \in DOMAIN path[1]
                     THEN transform(path[1].fn, value)
                     ELSE getitem(value, path[1].field)
         IN  IF Raises(step) THEN step ELSE walk(Tail(path), step.ok)

\* a < b for two lists of ints: the first differing element decides, and a
\* proper prefix is less.
RECURSIVE list_lt(_, _)
list_lt(a, b) ==
    IF Len(b) = 0 THEN FALSE
    ELSE IF Len(a) = 0 THEN TRUE
    ELSE IF a[1].int # b[1].int THEN a[1].int < b[1].int
    ELSE list_lt(Tail(a), Tail(b))

\* test(value) of the terminal operations:
\*   ==       value == rhs;
\*   <        value < rhs for two ints or two lists of ints, else
\*            TypeError;
\*   noop     True;
\*   exists   True;
\*   matches  re.match('x+', value) covering the whole value, TypeError
\*            unless value is a str;
\*   any      any(item in rhs for item in value) for a list rhs, TypeError
\*            when value is an int (not iterable); the characters of a str
\*            and the keys of a dict are not among the ints of rhs.
test(kind, rhs, value) ==
    IF kind = "==" THEN Ok(value = rhs)
    ELSE IF kind = "<"
    THEN IF isinstance(value, "int") /\ isinstance(rhs, "int")
         THEN Ok(value.int < rhs.int)
         ELSE IF isinstance(value, "list") /\ isinstance(rhs, "list")
         THEN Ok(list_lt(value.list, rhs.list))
         ELSE Raise("TypeError")
    ELSE IF kind \in {"exists", "noop"} THEN Ok(TRUE)
    ELSE IF kind = "matches"
    THEN IF isinstance(value, "str")
         THEN Ok(Len(value.str) > 0 /\ \A i \in 1..Len(value.str) : value.str[i] = "x")
         ELSE Raise("TypeError")
    ELSE IF isinstance(value, "list")
         THEN Ok(\E i \in 1..Len(value.list), j \in 1..Len(rhs.list) :
                    value.list[i] = rhs.list[j])
         ELSE IF isinstance(value, "int") THEN Raise("TypeError")
         ELSE Ok(FALSE)

\* except (KeyError, TypeError, ValueError) of runner.
Caught == {"KeyError", "TypeError", "ValueError"}

\* runner(value) of Query._generate_test with what it raises: the walk and
\* the test inside the try; a caught exception gives False, any other
\* exception leaves runner.
run(cond, value) ==
    LET found == walk(cond.path, value)
        r == IF Raises(found) THEN found ELSE test(cond.kind, cond.rhs, found.ok)
    IN  IF Raises(r) /\ r.raise \in Caught THEN Ok(FALSE) ELSE r

\* utils.freeze: a dict becomes a FrozenDict of frozen values, a list a
\* tuple of frozen elements, anything else is itself.
RECURSIVE freeze(_)
freeze(obj) ==
    IF isinstance(obj, "dict")
    THEN [frozendict |-> [k \in DOMAIN obj.dict |-> freeze(obj.dict[k])]]
    ELSE IF isinstance(obj, "list")
    THEN [tuple |-> [i \in 1..Len(obj.list) |-> freeze(obj.list[i])]]
    ELSE obj

\* Whether hash(obj) returns: a list and a dict are unhashable (TypeError),
\* a tuple and a FrozenDict are hashable when what they hold is.
RECURSIVE hashable(_)
hashable(obj) ==
    IF isinstance(obj, "list") \/ isinstance(obj, "dict") THEN FALSE
    ELSE IF isinstance(obj, "tuple")
    THEN \A i \in 1..Len(obj.tuple) : hashable(obj.tuple[i])
    ELSE IF isinstance(obj, "frozendict")
    THEN \A k \in DOMAIN obj.frozendict : hashable(obj.frozendict[k])
    ELSE TRUE

\* The hashval each terminal operation hands to _generate_test: __eq__ and
\* any freeze their operand, __lt__ does not, exists has none, matches adds
\* its flags, noop has neither path nor operand.
hashval_of(kind, path, rhs) ==
    IF kind \in {"==", "any"} THEN <<kind, path, freeze(rhs)>>
    ELSE IF kind = "<" THEN <<kind, path, rhs>>
    ELSE IF kind = "exists" THEN <<kind, path>>
    ELSE IF kind = "matches" THEN <<kind, path, rhs, 0>>
    ELSE <<kind>>

\* Query._generate_test without the test of the path.
_generate_test_unchecked(kind, path, rhs) ==
    Ok(QueryInstance(kind, path, rhs, Some(hashval_of(kind, path, rhs))))

\* Query._generate_test: RuntimeError('Query has no path') for an empty path
\* unless allow_empty_path, which noop alone passes; else the QueryInstance
\* of runner and hashval.
_generate_test(kind, path, rhs) ==
    IF Len(path) = 0 /\ kind # "noop"
    THEN Raise("RuntimeError")
    ELSE Ok(QueryInstance(kind, path, rhs, Some(hashval_of(kind, path, rhs))))

\* QueryInstance.__hash__: hash(self._hash), TypeError when the operand in
\* the tuple is unhashable. A hash is represented by the value hashed.
QueryInstance_hash(cond) ==
    IF cond.hash # None /\ Len(Value(cond.hash)) >= 3 /\ ~hashable(Value(cond.hash)[3])
    THEN Raise("TypeError")
    ELSE Ok(cond.hash)

\* a & b that is cacheable when either operand is.
QueryInstance_and_either(a, b) ==
    QueryInstance("and", <<>>, <<a, b>>,
                  IF is_cacheable(a) \/ is_cacheable(b)
                  THEN Some(<<"and", {a.hash, b.hash}>>) ELSE None)

\* QueryInstance.__eq__: the _hash values are equal.
QueryInstance_eq(a, b) == a.hash = b.hash

\* QueryInstance.__and__, __or__, __invert__: the operands are kept in rhs.
QueryInstance_and(a, b) ==
    QueryInstance("and", <<>>, <<a, b>>,
                  IF is_cacheable(a) /\ is_cacheable(b)
                  THEN Some(<<"and", {a.hash, b.hash}>>) ELSE None)

QueryInstance_or(a, b) ==
    QueryInstance("or", <<>>, <<a, b>>,
                  IF is_cacheable(a) /\ is_cacheable(b)
                  THEN Some(<<"or", {a.hash, b.hash}>>) ELSE None)

QueryInstance_invert(a) ==
    QueryInstance("not", <<>>, <<a>>,
                  IF is_cacheable(a) THEN Some(<<"not", a.hash>>) ELSE None)

\* QueryInstance.__call__ with what it raises: self._test(value), where the
\* test of `and` is self(value) and other(value), of `or` self(value) or
\* other(value), of `not` not self(value).
RECURSIVE QueryInstance_call(_, _)
QueryInstance_call(cond, value) ==
    IF cond.kind = "and"
    THEN LET l == QueryInstance_call(cond.rhs[1], value)
         IN  IF Raises(l) \/ ~l.ok THEN l ELSE QueryInstance_call(cond.rhs[2], value)
    ELSE IF cond.kind = "or"
    THEN LET l == QueryInstance_call(cond.rhs[1], value)
         IN  IF Raises(l) \/ l.ok THEN l ELSE QueryInstance_call(cond.rhs[2], value)
    ELSE IF cond.kind = "not"
    THEN LET l == QueryInstance_call(cond.rhs[1], value)
         IN  IF Raises(l) THEN l ELSE Ok(~l.ok)
    ELSE run(cond, value)

\* The documents evaluated: {}, {'a': 1}, {'a': 'x'}, {'a': ''}, {'a': []},
\* {'a': [1]}, {'a': {'b': 1}}.
QDocs ==
    {PyDict(<<>>),
     PyDict([a |-> PyInt(1)]),
     PyDict([a |-> PyStr(<<"x">>)]),
     PyDict([a |-> PyStr(<<>>)]),
     PyDict([a |-> PyList(<<>>)]),
     PyDict([a |-> PyList(<<PyInt(1)>>)]),
     PyDict([a |-> PyDict([b |-> PyInt(1)])])}

\* The paths: a, a.b, a.map(len), a.map(lambda v: v[0]),
\* a.map(lambda v: v.upper()).
QPaths ==
    LET a == Query_getattr(<<>>, "a")
    IN  {a, Query_getattr(a, "b"), Query_map(a, "len"), Query_map(a, "first"),
         Query_map(a, "upper")}

\* The terminal operations with their operands: == 1, < 2, < [1], exists(),
\* matches('x+'), any([1]), noop().
QTests ==
    {<<"==", PyInt(1)>>, <<"<", PyInt(2)>>, <<"<", PyList(<<PyInt(1)>>)>>,
     <<"exists", PyInt(0)>>, <<"matches", PyStr(<<"x", "+">>)>>,
     <<"any", PyList(<<PyInt(1)>>)>>, <<"noop", PyInt(0)>>}

QLeaves == {_generate_test(t[1], path, t[2]).ok : t \in QTests, path \in QPaths}

\* The operands of the combinations: a == 1, a.exists(),
\* a.map(lambda v: v[0]) == 1.
QOperands ==
    {_generate_test("==", Query_getattr(<<>>, "a"), PyInt(1)).ok,
     _generate_test("exists", Query_getattr(<<>>, "a"), PyInt(0)).ok,
     _generate_test("==", Query_map(Query_getattr(<<>>, "a"), "first"), PyInt(1)).ok}

\* A query instance built with hashval None (not cacheable).
QUncached == QueryInstance("exists", Query_getattr(<<>>, "a"), PyInt(0), None)

\* The query instances combined with &, | and ~.
QCombined == QOperands \cup {QUncached}

\* A terminal operation on a path, the empty path of Query() included: what
\* it gave, and what the same calls gave a second time.
q_build(kind, path, rhs) ==
    /\ q_last' = [op |-> "build", kind |-> kind, path |-> path, rhs |-> rhs,
                  built |-> _generate_test(kind, path, rhs),
                  twin |-> _generate_test(kind, path, rhs)]
    /\ UNCHANGED <<table_vars, lru_vars, mw_vars, io_vars, alias_vars>>

\* a & b, b & a, a | b, b | a and ~a.
q_combine(a, b) ==
    /\ q_last' = [op |-> "combine", a |-> a, b |-> b,
                  and_ab |-> QueryInstance_and(a, b),
                  and_ba |-> QueryInstance_and(b, a),
                  or_ab |-> QueryInstance_or(a, b),
                  or_ba |-> QueryInstance_or(b, a),
                  not_a |-> QueryInstance_invert(a)]
    /\ UNCHANGED <<table_vars, lru_vars, mw_vars, io_vars, alias_vars>>

\* cond(doc): the query, the document and what the call gave.
q_call(cond, doc) ==
    /\ q_last' = [op |-> "call", cond |-> cond, doc |-> doc,
                  outcome |-> QueryInstance_call(cond, doc)]
    /\ UNCHANGED <<table_vars, lru_vars, mw_vars, io_vars, alias_vars>>

QInit ==
    /\ Query_init
    /\ Table_init
    /\ LRUCache_init(0)
    /\ CachingMiddleware_init(1, None)
    /\ Sharing_init("t")
    /\ Alias_init

QNext ==
    \/ \E cond \in QLeaves, doc \in QDocs : q_call(cond, doc)
    \/ \E a, b \in QOperands, doc \in QDocs : q_call(QueryInstance_and(a, b), doc)
    \/ \E a, b \in QOperands, doc \in QDocs : q_call(QueryInstance_or(a, b), doc)
    \/ \E a \in QOperands, doc \in QDocs : q_call(QueryInstance_invert(a), doc)
    \/ \E t \in QTests, path \in QPaths \cup {<<>>} : q_build(t[1], path, t[2])
    \/ \E a, b \in QCombined : q_combine(a, b)

QSpec == QInit /\ [][QNext]_vars

\* ------------------------------------------------- Tables on one storage
\* Two Tables on one MemoryStorage. The storage holds the mapping of table
\* names to snapshots, or None. A mutating call is taken step by step, as
\* _update_table makes it: the mapping is read, later the updater is run on
\* the mapping that was read and the whole mapping is written back. Between
\* the two steps the other caller may take steps of its own.

\* tables = self._storage.read(): no tables when the storage holds None.
NoTables == [n \in {} |-> <<>>]

Storage_tables(st) == IF st = None THEN NoTables ELSE Value(st)

\* The Table of caller record t seen over a mapping: its snapshot is the
\* entry of its name, absent when the mapping has none.
Table_over(t, tables) ==
    [storage |-> IF t.name \in DOMAIN tables THEN Some(tables[t.name]) ELSE None,
     cache |-> <<>>,
     next_id |-> t.next_id]

\* The mapping with this table alone.
Tables_only(tables, name, table) == [n \in {name} |-> table]

\* tables[self.name] = table: every other entry of the mapping stays.
Tables_with(tables, name, table) ==
    [n \in DOMAIN tables \cup {name} |-> IF n = name THEN table ELSE tables[n]]

\* The mapping read afresh when the updater runs.
Borrowed_fresh(t, st) == Storage_tables(st)

\* The mapping the updater runs on: the one _update_table read.
Borrowed(t, st) == Value(t.tables)

\* self._storage.write(tables) left out when the mapping is what the
\* storage holds.
Storage_write_if_changed(st, tables) ==
    IF st = Some(tables) THEN [st |-> st, log |-> <<>>]
    ELSE [st |-> Some(tables), log |-> <<"write">>]

\* self._storage.write(tables): the storage holds the mapping given.
Storage_write(st, tables) == [st |-> Some(tables), log |-> <<"write">>]

\* The updater of the call in progress run on the Table `self`: what it
\* leaves of the Table, what the call returns, the ids it drew, and the
\* storage reads it made. insert_multiple's updater draws its ids through
\* _get_next_id, which reads the storage st when there is no counter.
IO_updater(t, self, st) ==
    IF t.op = "insert"
    THEN [self |-> _update_table_write(self, DictSet(_update_table_read(self),
                                                     PyInt(t.id), t.arg.insert)),
          ret |-> Py("int", t.id), ids |-> <<>>, log |-> <<>>]
    ELSE IF t.op = "insert_multiple"
    THEN LET documents == t.arg.insert_multiple
             reads == t.next_id = None /\ Len(documents) > 0
             counted == IF reads
                        THEN [self EXCEPT !.next_id =
                                 Some(_get_next_id(Table_over(t, Storage_tables(st))).id)]
                        ELSE self
             u == insert_multiple_updater(counted, _update_table_read(self), documents, <<>>)
         IN  [self |-> _update_table_write(u.self, u.table),
              ret |-> Py("ids", u.doc_ids), ids |-> u.doc_ids,
              log |-> IF reads THEN <<"read">> ELSE <<>>]
    ELSE IF t.op = "update"
    THEN LET r == Table_update(self, t.arg.update[1], t.arg.update[2], t.arg.update[3])
         IN  [self |-> r.self, ret |-> Py("ids", r.ret), ids |-> <<>>, log |-> <<>>]
    ELSE IF t.op = "update_multiple"
    THEN LET r == Table_update_multiple(self, t.arg.update_multiple)
         IN  [self |-> r.self, ret |-> Py("ids", r.ret), ids |-> <<>>, log |-> <<>>]
    ELSE IF t.op = "remove"
    THEN LET r == Table_remove(self, t.arg.remove[1], t.arg.remove[2])
         IN  [self |-> r.self, ret |-> Py("ids", r.ret), ids |-> <<>>, log |-> <<>>]
    ELSE LET r == Table_truncate(self)
         IN  [self |-> r.self, ret |-> Py("none", None), ids |-> <<>>, log |-> <<>>]

\* The calls other than insert, with their arguments; caller 1 makes them,
\* caller 2 only inserts.
IOCalls ==
    {<<"insert_multiple", documents>> : documents \in DocumentLists}
    \cup {<<"update", <<fields, cond, None>>>> : fields \in FieldsIn, cond \in {None, Some(QA)}}
    \cup {<<"update_multiple", updates>> : updates \in UpdateLists}
    \cup {<<"remove", <<cond, None>>>> : cond \in {Some(QA), Some(NA)}}
    \cup {<<"truncate", None>>}

\* insert(document), up to its _update_table: doc_id = self._get_next_id(),
\* which reads the storage when the Table has no counter.
io_insert(c, document) ==
    /\ tbl[c].pc = "idle"
    /\ io_hist.begun < MaxCycles
    /\ LET t == tbl[c]
           g == _get_next_id(Table_over(t, Storage_tables(db)))
       IN  tbl' = [tbl EXCEPT ![c] =
                      [t EXCEPT !.pc = "called", !.op = "insert",
                                !.arg = Py("insert", document),
                                !.counted = t.next_id # None,
                                !.next_id = g.self.next_id, !.id = g.id,
                                !.log = IF t.next_id = None THEN <<"read">> ELSE <<>>]]
    /\ io_hist' = [io_hist EXCEPT !.begun = @ + 1,
                                  !.issued[c] = Append(@, _get_next_id(Table_over(tbl[c], Storage_tables(db))).id),
                                  !.since[c] = Append(@, _get_next_id(Table_over(tbl[c], Storage_tables(db))).id)]
    /\ UNCHANGED <<db, io_last>>
    /\ UNCHANGED <<table_vars, lru_vars, mw_vars, q_vars, alias_vars>>

\* Another call begins.
io_call(c, op, arg) ==
    /\ tbl[c].pc = "idle"
    /\ io_hist.begun < MaxCycles
    /\ tbl' = [tbl EXCEPT ![c] =
                  [@ EXCEPT !.pc = "called", !.op = op, !.arg = Py(op, arg),
                            !.counted = tbl[c].next_id # None, !.log = <<>>]]
    /\ io_hist' = [io_hist EXCEPT !.begun = @ + 1]
    /\ UNCHANGED <<db, io_last>>
    /\ UNCHANGED <<table_vars, lru_vars, mw_vars, q_vars, alias_vars>>

\* _update_table, first half: tables = self._storage.read().
io_read(c) ==
    /\ tbl[c].pc = "called"
    /\ tbl' = [tbl EXCEPT ![c] =
                  [@ EXCEPT !.pc = "read", !.tables = Some(Storage_tables(db)),
                            !.log = Append(@, "read")]]
    /\ UNCHANGED <<db, io_last, io_hist>>
    /\ UNCHANGED <<table_vars, lru_vars, mw_vars, q_vars, alias_vars>>

\* _update_table, second half, and the return of the call: the updater is
\* run on the table of the mapping read, the entry of this table is
\* replaced and the mapping written; truncate forgets the counter.
io_write(c) ==
    /\ tbl[c].pc = "read"
    /\ LET t == tbl[c]
           tables == Borrowed(t, db)
           u == IO_updater(t, Table_over(t, tables), db)
           written == Tables_with(tables, t.name, Value(u.self.storage))
           w == Storage_write(db, written)
           log == t.log \o u.log \o w.log
       IN  /\ db' = w.st
           /\ tbl' = [tbl EXCEPT ![c] =
                         [Table_idle(t.name) EXCEPT !.next_id = u.self.next_id]]
           /\ io_last' = [op |-> t.op, caller |-> c, name |-> t.name, arg |-> t.arg,
                          ret |-> u.ret, counted |-> t.counted, read |-> Value(t.tables),
                          held |-> db, written |-> written, log |-> log]
           /\ io_hist' = [io_hist EXCEPT
                             !.stale = @ \/ Storage_tables(db) # Value(t.tables),
                             !.done = Append(@, <<c, t.op>>),
                             !.issued[c] = @ \o u.ids,
                             !.since[c] = IF t.op = "truncate" THEN <<>> ELSE @ \o u.ids]
    /\ UNCHANGED <<table_vars, lru_vars, mw_vars, q_vars, alias_vars>>

IOInit ==
    /\ \E name \in Names : Sharing_init(name)
    /\ Table_init
    /\ LRUCache_init(0)
    /\ CachingMiddleware_init(1, None)
    /\ Query_init
    /\ Alias_init

IONext ==
    \/ \E c \in Callers, document \in Documents : io_insert(c, document)
    \/ \E call \in IOCalls : io_call(1, call[1], call[2])
    \/ \E c \in Callers : io_read(c)
    \/ \E c \in Callers : io_write(c)

IOSpec == IOInit /\ [][IONext]_vars

\* ------------------------------------------------ the objects handed out
\* A Table with the identity of the lists and Documents it returns. heap is
\* the sequence of objects made so far, an object being a list of
\* references, [list |-> refs], or a Document; a reference is an index
\* into heap. a_self is the Table, the values of its query cache being
\* references to lists. a_held are the references the caller can reach.

\* A Document made for each of docs, in order, and a list of them.
RECURSIVE Alias_documents(_, _, _)
Alias_documents(h, docs, refs) ==
    IF Len(docs) = 0 THEN [heap |-> h, refs |-> refs]
    ELSE Alias_documents(Append(h, docs[1]), Tail(docs), Append(refs, Len(h) + 1))

Alias_list(h, docs) ==
    LET d == Alias_documents(h, docs, <<>>)
    IN  [heap |-> Append(d.heap, [list |-> d.refs]), ref |-> Len(d.heap) + 1,
         reach |-> {Len(d.heap) + 1} \cup {d.refs[i] : i \in 1..Len(d.refs)}]

\* Table.all: a new list of new Documents.
Alias_all(h, self) == Alias_list(h, Table_all(self))

\* Table.search: on a hit self._query_cache[cond], the list object that was
\* stored; on a miss the list docs of the matching Documents, which is
\* stored under cond and returned, the same object.
Alias_search(h, self, cond) ==
    IF LRU_contains(self.cache, cond.hash)
    THEN LET g == LRU_getitem(self.cache, cond.hash)
         IN  [heap |-> h, self |-> [self EXCEPT !.cache = g.cache], ref |-> g.value,
              reach |-> {g.value} \cup {h[g.value].list[i] : i \in 1..Len(h[g.value].list)}]
    ELSE LET l == Alias_list(h, SelectSeq(Table_all(self), LAMBDA doc : Call(cond, doc)))
         IN  [heap |-> l.heap,
              self |-> [self EXCEPT !.cache =
                           LRU_setitem(self.cache, cond.hash, l.ref, CacheSize)],
              ref |-> l.ref, reach |-> l.reach]

\* Table.get(cond): docs[0] of search(cond), the Document in that list, or
\* None.
Alias_get(h, self, cond) ==
    LET r == Alias_search(h, self, cond)
        docs == r.heap[r.ref].list
    IN  [heap |-> r.heap, self |-> r.self,
         ref |-> IF Len(docs) > 0 THEN Some(docs[1]) ELSE None,
         reach |-> IF Len(docs) > 0 THEN {docs[1]} ELSE {}]

\* The value of an object: of a list the Documents it refers to.
Deref(h, ref) ==
    IF "list" \in DOMAIN h[ref]
    THEN [i \in 1..Len(h[ref].list) |-> h[h[ref].list[i]]]
    ELSE h[ref]

\* What search(cond) returns in this state, as a value.
SearchValue(h, self, cond) ==
    LET r == Alias_search(h, self, cond)
    IN  Deref(r.heap, r.ref)

AliasConds == {QA, QE}

\* A call that returns objects: they are made within MaxObjects.
AliasApply(op, r) ==
    /\ Len(r.heap) <= MaxObjects
    /\ heap' = r.heap
    /\ a_self' = r.self
    /\ a_held' = a_held \cup r.reach
    /\ a_last' = [op |-> op, reach |-> r.reach]
    /\ UNCHANGED <<table_vars, lru_vars, mw_vars, q_vars, io_vars>>

a_insert(document) ==
    /\ Len(_read_table(a_self)) < MaxIssued
    /\ AliasApply("insert", [heap |-> heap, self |-> Table_insert(a_self, document).self,
                             reach |-> {}])

a_all ==
    /\ AliasApply("all", [heap |-> Alias_all(heap, a_self).heap, self |-> a_self,
                          reach |-> Alias_all(heap, a_self).reach])

a_search(cond) ==
    /\ AliasApply("search", Alias_search(heap, a_self, cond))

a_get(cond) ==
    /\ AliasApply("get", Alias_get(heap, a_self, cond))

\* The caller empties a list it was given: lst.clear().
a_clear(ref) ==
    /\ ref \in a_held
    /\ "list" \in DOMAIN heap[ref]
    /\ heap[ref].list # <<>>
    /\ heap' = [heap EXCEPT ![ref] = [list |-> <<>>]]
    /\ a_last' = [op |-> "clear", reach |-> {ref}]
    /\ UNCHANGED <<a_self, a_held>>
    /\ UNCHANGED <<table_vars, lru_vars, mw_vars, q_vars, io_vars>>

\* The caller changes a Document it was given: doc['a'] = 0.
a_setitem(ref) ==
    /\ ref \in a_held
    /\ "list" \notin DOMAIN heap[ref]
    /\ heap[ref].value # [a |-> 0]
    /\ heap' = [heap EXCEPT ![ref] = Document([a |-> 0], heap[ref].doc_id)]
    /\ a_last' = [op |-> "setitem", reach |-> {ref}]
    /\ UNCHANGED <<a_self, a_held>>
    /\ UNCHANGED <<table_vars, lru_vars, mw_vars, q_vars, io_vars>>

AliasInit ==
    /\ Alias_init
    /\ Table_init
    /\ LRUCache_init(0)
    /\ CachingMiddleware_init(1, None)
    /\ Query_init
    /\ Sharing_init("t")

AliasNext ==
    \/ \E document \in Documents : a_insert(document)
    \/ a_all
    \/ \E cond \in AliasConds : a_search(cond)
    \/ \E cond \in AliasConds : a_get(cond)
    \/ \E ref \in 1..MaxObjects : a_clear(ref)
    \/ \E ref \in 1..MaxObjects : a_setitem(ref)

AliasSpec == AliasInit /\ [][AliasNext]_vars

\* ------------------------------------------------------ claims: LRUCache
\* The entries of c other than key k, in order.
OtherEntries(c, k) == SelectSeq(c, LAMBDA e : e.key # k)

Held(c, k) == {c[i].value : i \in {j \in 1..Len(c) : c[j].key = k}}

\* C12 as claimed: the cache never holds more than capacity entries and
\* every set completes without error and leaves its key with its value.
C12_BoundedAndSetSucceeds ==
    /\ Len(lru_cache) <= lru_capacity
    /\ lru_last.op = "set" =>
           /\ ~lru_last.raised
           /\ Held(lru_cache, lru_last.key) = {lru_last.value}

\* C12 as amended: the cache never holds more than capacity entries; with
\* a capacity of at least 1 every set completes and leaves its key with its
\* value; with capacity 0 every set raises and the cache stays empty.
C12_BoundedAndSetSucceedsFromOne ==
    /\ Len(lru_cache) <= lru_capacity
    /\ Cardinality(LRU_keys(lru_cache)) = Len(lru_cache)
    /\ lru_last.op = "set" =>
           IF lru_capacity >= 1
           THEN /\ ~lru_last.raised
                /\ Held(lru_cache, lru_last.key) = {lru_last.value}
           ELSE /\ lru_last.raised
                /\ lru_cache = <<>>

\* A third key was set into a full cache of capacity 2.
C12_Witness ==
    /\ lru_capacity = 2
    /\ lru_last.op = "set"
    /\ Len(lru_cache) = 2
    /\ lru_clock >= 3
    /\ lru_used[lru_last.key] = lru_clock

\* C13: get(key, default) of an absent key returns default and leaves the
\* cache as it is; of a held key it returns the value held, puts the key
\* last (most recently used) and leaves the other entries and their order.
C13_GetMovesToEnd ==
    [][lru_last'.op = "get" =>
          IF LRU_contains(lru_cache, lru_last'.key)
          THEN /\ {lru_last'.ret.int} = Held(lru_cache, lru_last'.key)
               /\ Len(lru_cache') = Len(lru_cache)
               /\ lru_cache'[Len(lru_cache')] =
                      [key |-> lru_last'.key, value |-> lru_last'.ret.int]
               /\ OtherEntries(lru_cache', lru_last'.key) =
                      OtherEntries(lru_cache, lru_last'.key)
          ELSE /\ lru_last'.ret.int = lru_last'.value
               /\ lru_cache' = lru_cache]_vars

\* A get has found the first (least recently used) of two keys and put it
\* last.
C13_Witness ==
    /\ lru_last.op = "get"
    /\ Len(lru_cache) = 2
    /\ lru_cache[2].key = lru_last.key
    /\ lru_used[lru_cache[1].key] < lru_clock - 1

\* C14: set(k, v) of a held key leaves the length and the other entries as
\* they are, evicts nothing, and puts k last with value v, also when the
\* cache is full.
C14_OverwriteKeepsLength ==
    [][(lru_last'.op = "set" /\ LRU_contains(lru_cache, lru_last'.key)) =>
          /\ ~lru_last'.raised
          /\ Len(lru_cache') = Len(lru_cache)
          /\ LRU_keys(lru_cache') = LRU_keys(lru_cache)
          /\ lru_cache'[Len(lru_cache')] =
                 [key |-> lru_last'.key, value |-> lru_last'.value]
          /\ OtherEntries(lru_cache', lru_last'.key) =
                 OtherEntries(lru_cache, lru_last'.key)]_vars

\* The least recently used key of a full cache of two was set again with
\* another value.
C14_Witness ==
    /\ lru_capacity = 2
    /\ lru_last.op = "set"
    /\ lru_cache = <<[key |-> "b", value |-> 2], [key |-> "a", value |-> 3]>>
    /\ lru_used["b"] = 2
    /\ lru_clock = 3

\* --------------------------------------------- claims: CachingMiddleware
\* The write calls the wrapped storage has received, in order.
WriteCalls(log) == SelectSeq(log, LAMBDA c : c.call = "write")

ReadCalls(log) == SelectSeq(log, LAMBDA c : c.call = "read")

\* C15: write(data) makes data the buffer and counts one more pending
\* write; it writes to the wrapped storage exactly when the count reaches
\* WRITE_CACHE_SIZE, one write carrying data, and the count is then 0;
\* otherwise the wrapped storage receives nothing. After every write the
\* count is at least 0 and less than WRITE_CACHE_SIZE.
C15_WriteFlushesAtThreshold ==
    [][mw_last'.op = "write" =>
          LET n == mw._cache_modified_count + 1
          IN  /\ mw'.cache = mw_last'.data
              /\ n <= mw.WRITE_CACHE_SIZE
              /\ IF n = mw.WRITE_CACHE_SIZE
                 THEN /\ calls' = Append(calls, StorageCall("write", mw_last'.data))
                      /\ mw'._cache_modified_count = 0
                 ELSE /\ calls' = calls
                      /\ mw'._cache_modified_count = n
              /\ 0 <= mw'._cache_modified_count
              /\ mw'._cache_modified_count < mw.WRITE_CACHE_SIZE]_vars

\* With WRITE_CACHE_SIZE 3 the third write has written d2 through after two
\* writes of d1 that stayed in the buffer.
C15_Witness ==
    /\ mw.WRITE_CACHE_SIZE = 3
    /\ mw_last.op = "write"
    /\ mw_hist.writes = 3
    /\ mw_hist.made = 3
    /\ mw._cache_modified_count = 0
    /\ calls = <<StorageCall("write", Some("d2"))>>

\* Only read and write calls have been made to a middleware with
\* WRITE_CACHE_SIZE 2.
OnlyWritesAtTwo ==
    /\ mw.WRITE_CACHE_SIZE = 2
    /\ mw_hist.flushes = 0
    /\ ~mw_hist.closed

\* C16 as claimed: with WRITE_CACHE_SIZE 2 the first two writes cause no
\* write to the wrapped storage and the third causes exactly one, carrying
\* the data of the third write.
C16_ThirdWriteFlushes ==
    OnlyWritesAtTwo =>
        /\ mw_hist.writes \in {1, 2} => WriteCalls(calls) = <<>>
        /\ mw_hist.writes = 3 =>
               WriteCalls(calls) = <<StorageCall("write", mw_hist.written)>>

\* C16 as amended: with WRITE_CACHE_SIZE 2 the first write causes no write
\* to the wrapped storage, the second causes exactly one, carrying the data
\* of the second write, and the third causes none: every second write is
\* written through.
C16_SecondWriteFlushes ==
    OnlyWritesAtTwo =>
        /\ Len(WriteCalls(calls)) = mw_hist.writes \div 2
        /\ mw._cache_modified_count = mw_hist.writes % 2
        /\ (mw_last.op = "write" /\ mw_hist.writes % 2 = 0) =>
               calls[Len(calls)] = StorageCall("write", mw_hist.written)

\* Three writes to a middleware with WRITE_CACHE_SIZE 2: the wrapped storage
\* has received the second.
C16_Witness ==
    /\ OnlyWritesAtTwo
    /\ mw_hist.writes = 3
    /\ mw_hist.made = 3
    /\ mw_last.data = Some("d1")
    /\ calls = <<StorageCall("write", Some("d2"))>>

\* C17: close() with no pending write calls no write on the wrapped
\* storage and closes it.
C17_CloseWithoutPendingWritesNothing ==
    [][(mw_last'.op = "close" /\ mw._cache_modified_count = 0) =>
          calls' = Append(calls, StorageCall("close", None))]_vars

\* C18: close() with a pending write writes the data of the last write to
\* the wrapped storage and then closes it; the last data the wrapped
\* storage has received is the data of the last write.
C18_CloseFlushesThenCloses ==
    [][(mw_last'.op = "close" /\ mw._cache_modified_count > 0) =>
          /\ mw_hist.written # None
          /\ calls' = calls \o <<StorageCall("write", mw_hist.written),
                                  StorageCall("close", None)>>]_vars

\* A read of the stored d0, writes of d1 and d2 below the threshold, and a
\* close that has written d2.
C18_Witness ==
    /\ mw_hist.closed
    /\ mw_hist.writes = 2
    /\ calls = <<StorageCall("read", None), StorageCall("write", Some("d2")),
                 StorageCall("close", None)>>

\* C19: the wrapped storage's read is called at most once, by a read made
\* before every write and every other read, also when it holds no data.
C19_ReadsThroughOnce ==
    /\ Len(ReadCalls(calls)) <= 1
    /\ ReadCalls(calls) # <<>> => calls[1].call = "read"

\* ----------------------------------------------------- claims: queries
\* The terminal operations, as opposed to the combinations.
IsLeaf(cond) == cond.kind \notin {"and", "or", "not"}

\* C20: the evaluation of a query built from the terminal operations on a
\* non-empty path, or of an AND, OR or NOT of such queries, never raises;
\* when a step of the path fails the query is false for the document.
C20_EvaluationNeverRaises ==
    q_last.op = "call" =>
        /\ ~Raises(q_last.outcome)
        /\ (IsLeaf(q_last.cond) /\ Raises(walk(q_last.cond.path, q_last.doc))) =>
               q_last.outcome = Ok(FALSE)
\* C29: after write(d) every read() returns d until the next write, flushed
\* or not and whatever the wrapped storage held before.
C29_ReadYourWrites ==
    (mw_last.op = "read" /\ mw_hist.written # None) => mw_last.ret = mw_hist.written

\* A read of d1 while the wrapped storage still holds d0.
C29_Witness ==
    /\ mw_last.op = "read"
    /\ mw_hist.written = Some("d1")
    /\ mw_last.ret = Some("d1")
    /\ memory = Some("d0")

\* A read of d1 after it was flushed over d0.
C29_FlushedWitness ==
    /\ mw_last.op = "read"
    /\ mw_hist.written = Some("d1")
    /\ mw_last.ret = Some("d1")
    /\ mw_hist.flushes > 0
    /\ calls[1] = StorageCall("write", Some("d1"))

\* C21: two queries built through the same path, operator and operand calls
\* are equal and hash equal; for cacheable a and b, a & b equals and hashes
\* equal to b & a, a | b to b | a, and a & b and a | b have distinct keys.
HashEqual(x, y) ==
    /\ ~Raises(QueryInstance_hash(x))
    /\ ~Raises(QueryInstance_hash(y))
    /\ QueryInstance_hash(x) = QueryInstance_hash(y)

C21_HashingStructuralCommutative ==
    /\ (q_last.op = "build" /\ ~Raises(q_last.built)) =>
          /\ QueryInstance_eq(q_last.built.ok, q_last.twin.ok)
          /\ HashEqual(q_last.built.ok, q_last.twin.ok)
    /\ (q_last.op = "combine" /\ is_cacheable(q_last.a) /\ is_cacheable(q_last.b)) =>
          /\ QueryInstance_eq(q_last.and_ab, q_last.and_ba)
          /\ HashEqual(q_last.and_ab, q_last.and_ba)
          /\ QueryInstance_eq(q_last.or_ab, q_last.or_ba)
          /\ HashEqual(q_last.or_ab, q_last.or_ba)
          /\ ~QueryInstance_eq(q_last.and_ab, q_last.or_ab)

\* C21 without the hash of a built query: what holds of the code.
C21_EqualAndCommutative ==
    /\ (q_last.op = "build" /\ ~Raises(q_last.built)) =>
          QueryInstance_eq(q_last.built.ok, q_last.twin.ok)
    /\ (q_last.op = "combine" /\ is_cacheable(q_last.a) /\ is_cacheable(q_last.b)) =>
          /\ QueryInstance_eq(q_last.and_ab, q_last.and_ba)
          /\ HashEqual(q_last.and_ab, q_last.and_ba)
          /\ QueryInstance_eq(q_last.or_ab, q_last.or_ba)
          /\ HashEqual(q_last.or_ab, q_last.or_ba)
          /\ ~QueryInstance_eq(q_last.and_ab, q_last.or_ab)

\* C22: a & b and a | b are cacheable iff both operands are, ~a iff a is,
\* and the hash of a combination that is not cacheable is None.
C22_CacheabilityPropagates ==
    q_last.op = "combine" =>
        /\ is_cacheable(q_last.and_ab) <=> (is_cacheable(q_last.a) /\ is_cacheable(q_last.b))
        /\ is_cacheable(q_last.or_ab) <=> (is_cacheable(q_last.a) /\ is_cacheable(q_last.b))
        /\ is_cacheable(q_last.not_a) <=> is_cacheable(q_last.a)
        /\ \A c \in {q_last.and_ab, q_last.or_ab, q_last.not_a} :
              ~is_cacheable(c) => c.hash = None

C22_Witness ==
    /\ q_last.op = "combine"
    /\ is_cacheable(q_last.a)
    /\ ~is_cacheable(q_last.b)
    /\ q_last.and_ab.hash = None
    /\ q_last.or_ab.hash = None
    /\ q_last.not_a.hash # None

\* C23: a terminal operation other than noop on an empty path raises when
\* the query is built; noop on an empty path gives a query that is true
\* for every document.
C23_EmptyPathRaises ==
    q_last.op = "build" =>
        /\ (q_last.path = <<>> /\ q_last.kind # "noop") =>
              q_last.built = Raise("RuntimeError")
        /\ (q_last.path = <<>> /\ q_last.kind = "noop") =>
              /\ ~Raises(q_last.built)
              /\ \A doc \in QDocs : QueryInstance_call(q_last.built.ok, doc) = Ok(TRUE)
        /\ q_last.path # <<>> => ~Raises(q_last.built)

C23_Witness ==
    /\ q_last.op = "build"
    /\ q_last.path = <<>>
    /\ q_last.kind = "exists"
    /\ q_last.built = Raise("RuntimeError")

C23_NoopWitness ==
    /\ q_last.op = "build"
    /\ q_last.path = <<>>
    /\ q_last.kind = "noop"
    /\ ~Raises(q_last.built)

\* ------------------------------------------- claims: Tables on one storage
\* Caller c's call returns in this step: the second half of _update_table.
WriteStep(c) == tbl[c].pc = "read" /\ tbl'[c].pc = "idle"

\* The table of a name in a mapping, empty when the mapping has none.
TableIn(tables, name) == IF name \in DOMAIN tables THEN tables[name] ELSE <<>>

\* The storage calls in a log that are writes.
Writes(log) == SelectSeq(log, LAMBDA call : call = "write")

\* No caller but c has begun a call on the storage.
Alone(c) ==
    /\ \A o \in Callers \ {c} : tbl[o].pc = "idle"
    /\ \A i \in 1..Len(io_hist.done) : io_hist.done[i][1] = c

\* C24: update_multiple takes every document through its pairs in list
\* order, the cond of a pair being put to the document as the pairs before
\* it left it; the ids returned are those of the documents some pair
\* matched; the storage is read once and written once.
RECURSIVE AfterPairs(_, _, _)
AfterPairs(doc, updates, n) ==
    IF n = 0 THEN doc
    ELSE LET before == AfterPairs(doc, updates, n - 1)
         IN  IF runner(updates[n].cond, before)
             THEN apply_fields(updates[n].fields, before)
             ELSE before

PairHit(doc, updates) ==
    \E n \in 1..Len(updates) : runner(updates[n].cond, AfterPairs(doc, updates, n - 1))

C24_UpdateMultipleInOrder ==
    [][\A c \in Callers :
         (WriteStep(c) /\ tbl[c].op = "update_multiple") =>
            LET updates == tbl[c].arg.update_multiple
                read == TableIn(Value(tbl[c].tables), tbl[c].name)
                written == TableIn(Value(db'), tbl[c].name)
                hit == SelectSeq(read, LAMBDA e : PairHit(e.doc, updates))
            IN  /\ io_last'.log = <<"read", "write">>
                /\ Len(written) = Len(read)
                /\ \A i \in 1..Len(read) :
                      /\ written[i].key = read[i].key
                      /\ written[i].doc = AfterPairs(read[i].doc, updates, Len(updates))
                /\ io_last'.ret.ids = [i \in 1..Len(hit) |-> document_id_class(hit[i].key).int]]_vars

\* A document with a = 0 that the second pair matched only as the first
\* pair left it: it is written without a, and its id is returned.
C24_Witness ==
    /\ io_last.op = "update_multiple"
    /\ Len(io_last.arg.update_multiple) = 2
    /\ \E i \in 1..Len(TableIn(io_last.read, "t")) :
          /\ io_last.read.t[i].doc = [a |-> 0]
          /\ io_last.written.t[i].doc = delete("a", [a |-> 0])
          /\ \E j \in 1..Len(io_last.ret.ids) :
                PyInt(io_last.ret.ids[j]) = document_id_class(io_last.read.t[i].key)

\* What the write of a call carries: the mapping written is what the
\* storage holds after the step, and the table in it is whole: under
\* insert and update every key read is still there, under remove every
\* entry read is there as it was or its id is returned.
WholeTable(c) ==
    LET read == TableIn(Value(tbl[c].tables), tbl[c].name)
        written == TableIn(io_last'.written, tbl[c].name)
    IN  /\ db' = Some(io_last'.written)
        /\ Writes(io_last'.log) = <<"write">>
        /\ io_last'.log[Len(io_last'.log)] = "write"
        /\ \A i \in 1..Len(read) :
              IF tbl[c].op = "remove"
              THEN \/ \E j \in 1..Len(written) : written[j] = read[i]
                   \/ \E j \in 1..Len(io_last'.ret.ids) :
                         PyInt(io_last'.ret.ids[j]) = document_id_class(read[i].key)
              ELSE \E j \in 1..Len(written) : written[j].key = read[i].key

\* C25: every insert, update and remove call makes exactly one read of the
\* snapshot and then exactly one write, also when nothing matched, and the
\* write carries the whole table.
C25_OneReadOneWrite ==
    [][\A c \in Callers :
         (WriteStep(c) /\ tbl[c].op \in {"insert", "update", "remove"}) =>
            /\ io_last'.log = <<"read", "write">>
            /\ WholeTable(c)]_vars

\* C25 as it holds: an insert by a Table that has no counter yet (the first
\* after construction or truncate) reads the storage twice, once in
\* _get_next_id and once in _update_table.
C25_OneCycleOneWrite ==
    [][\A c \in Callers :
         (WriteStep(c) /\ tbl[c].op \in {"insert", "update", "remove"}) =>
            /\ io_last'.log = IF tbl[c].op = "insert" /\ ~tbl[c].counted
                              THEN <<"read", "read", "write">>
                              ELSE <<"read", "write">>
            /\ WholeTable(c)]_vars

\* An update that matched nothing: it read once and wrote what the storage
\* already held.
C25_Witness ==
    /\ io_last.op = "update"
    /\ io_last.ret.ids = <<>>
    /\ io_last.held = Some(io_last.written)
    /\ io_last.log = <<"read", "write">>
    /\ db = Some(io_last.written)

\* An insert that read twice.
C25_InsertWitness ==
    /\ io_last.op = "insert"
    /\ ~io_last.counted
    /\ io_last.log = <<"read", "read", "write">>

\* What insert_multiple of the documents returns and leaves, for a Table
\* that is alone on its storage: one write, as many ids as documents, each
\* one more than the one before, every entry read still there as it was,
\* and each document under its id.
InsertMultiplePost(c) ==
    LET documents == tbl[c].arg.insert_multiple
        ids == io_last'.ret.ids
        read == TableIn(Value(tbl[c].tables), tbl[c].name)
        written == TableIn(Value(db'), tbl[c].name)
    IN  /\ Writes(io_last'.log) = <<"write">>
        /\ Len(ids) = Len(documents)
        /\ \A i \in 1..Len(ids) - 1 : ids[i + 1] = ids[i] + 1
        /\ Len(written) = Len(read) + Len(documents)
        /\ \A i \in 1..Len(read) : written[i] = read[i]
        /\ \A i \in 1..Len(ids) :
              /\ DictHas(written, py_str(PyInt(ids[i])))
              /\ DictGet(written, py_str(PyInt(ids[i]))) = documents[i]

TotalDocs(st) ==
    LET tables == Storage_tables(st)
    IN  Len(TableIn(tables, "t")) + Len(TableIn(tables, "u"))

\* Each caller has made one insert on the empty storage and no other call.
TwoInserts ==
    /\ io_hist.done \in {<<<<1, "insert">>, <<2, "insert">>>>,
                          <<<<2, "insert">>, <<1, "insert">>>>}
    /\ \A c \in Callers : tbl[c].pc = "idle"

\* Both inserts went to one table under one id.
SameKey ==
    /\ tbl[1].name = tbl[2].name
    /\ io_hist.issued[1] = io_hist.issued[2]

\* C28: two callers on one storage can lose an update. After one insert by
\* each, the storage holds both documents exactly when neither write was
\* made from a mapping the storage no longer held and the two did not take
\* the same key: nothing keeps the cycles apart.
C28_LostUpdate ==
    TwoInserts => (TotalDocs(db) = 2 <=> (~io_hist.stale /\ ~SameKey))

\* The cycles overlapped and one of the two documents is gone.
C28_Witness ==
    /\ TwoInserts
    /\ io_hist.stale
    /\ TotalDocs(db) = 1

\* C30: the mapping a call on table T writes back holds every other table
\* exactly as the call read it.
C30_OtherTablesAsRead ==
    [][\A c \in Callers :
         WriteStep(c) =>
            LET read == Value(tbl[c].tables)
            IN  /\ db' # None
                /\ DOMAIN Value(db') = DOMAIN read \cup {tbl[c].name}
                /\ \A n \in DOMAIN read \ {tbl[c].name} : Value(db')[n] = read[n]]_vars

\* A call on t that read a document in u and wrote it back.
C30_Witness ==
    /\ io_last.op \in {"insert", "update", "remove", "truncate"}
    /\ io_last.name = "t"
    /\ Len(TableIn(io_last.read, "u")) > 0
    /\ db = Some(io_last.written)
    /\ io_last.written.u = io_last.read.u

\* ------------------------------------------- claims: the objects handed out
\* C27: what readers are given are copies: when the caller changes a list
\* or a Document that search, all or get returned, the stored snapshot
\* stays as it is and so does what a search with any cond returns.
C27_ReadersGetCopies ==
    [][a_last'.op \in {"clear", "setitem"} =>
          /\ a_self'.storage = a_self.storage
          /\ \A cond \in AliasConds :
                SearchValue(heap', a_self', cond) = SearchValue(heap, a_self, cond)]_vars

\* The part of C27 that holds: the stored snapshot stays as it is.
C27_SnapshotKept ==
    [][a_last'.op \in {"clear", "setitem"} => a_self'.storage = a_self.storage]_vars

====
